---------------------------- MODULE Spec2Model ----------------------------
(***************************************************************************)
(* Model of src/src/table-script.tsx: the transformation of the raw        *)
(* employee / external records into the rows of the utilisation table.     *)
(*                                                                         *)
(* JavaScript values are tagged records: Null, Undefined, Str(s) for a     *)
(* string (s is the sequence of its characters), Arr(a) for an array and   *)
(* records tagged "object" for objects.  An absent property reads as       *)
(* Undefined, as it does in JavaScript.  Numbers are exact decimals        *)
(* m / 10^e (or NaN); binary rounding error of IEEE doubles is not         *)
(* modelled, and the sample strings are chosen so that it does not change  *)
(* any digit that is printed.                                              *)
(***************************************************************************)
EXTENDS Integers, Sequences, FiniteSets, TLC

VARIABLES
    pc,                      \* position of the running computation
    value,                   \* formatPercentage: its argument
    personData,              \* calculateNetEarningsPrevMonth: its argument
    previousMonthFormatted,  \* calculateNetEarningsPrevMonth: local of line 116
    ret,                     \* what the called function returned (or Thrown)
    sourceData,              \* the imported JSON document
    rows,                    \* the array flowing through filter / map / filter
    tableData                \* the module-level constant of line 141

vars == <<pc, value, personData, previousMonthFormatted, ret, sourceData, rows, tableData>>

----------------------------------------------------------------------------
(* JavaScript values *)

Null == [t |-> "null"]

Undefined == [t |-> "undefined"]

Str(s) == [t |-> "string", s |-> s]

Arr(a) == [t |-> "array", a |-> a]

\* An uncaught TypeError leaving the function (or the module initialisation).
Thrown == [t |-> "TypeError"]

IsNullish(v) == v = Null \/ v = Undefined

\* ToBoolean: null, undefined and "" are falsy; objects, arrays and
\* non-empty strings are truthy.
Truthy(v) == ~IsNullish(v) /\ v # Str(<<>>)

\* `a || b`
OrElse(a, b) == IF Truthy(a) THEN a ELSE b

----------------------------------------------------------------------------
(* Numbers and strings *)

NaN == [nan |-> TRUE, m |-> 0, e |-> 0]

Dec(m, e) == [nan |-> FALSE, m |-> m, e |-> e]

RECURSIVE Pow10(_)
Pow10(n) == IF n = 0 THEN 1 ELSE 10 * Pow10(n - 1)

Abs(i) == IF i < 0 THEN -i ELSE i

Max(a, b) == IF a < b THEN b ELSE a

Digits == <<"0", "1", "2", "3", "4", "5", "6", "7", "8", "9">>

IsDigit(c) == \E i \in 1..10 : Digits[i] = c

DigitVal(c) == (CHOOSE i \in 1..10 : Digits[i] = c) - 1

RECURSIVE DigitsToInt(_)
DigitsToInt(s) ==
    IF s = <<>> THEN 0
    ELSE 10 * DigitsToInt(SubSeq(s, 1, Len(s) - 1)) + DigitVal(s[Len(s)])

RECURSIVE IntToDigits(_)
IntToDigits(n) ==
    IF n < 10 THEN <<Digits[n + 1]>>
    ELSE IntToDigits(n \div 10) \o <<Digits[(n % 10) + 1]>>

RECURSIVE PadStart(_, _)
PadStart(s, n) == IF Len(s) >= n THEN s ELSE PadStart(<<"0">> \o s, n)

RECURSIVE DigitPrefix(_)
DigitPrefix(s) ==
    IF s # <<>> /\ IsDigit(s[1]) THEN <<s[1]>> \o DigitPrefix(Tail(s)) ELSE <<>>

RECURSIVE TrimStart(_)
TrimStart(s) == IF s # <<>> /\ s[1] = " " THEN TrimStart(Tail(s)) ELSE s

RECURSIVE TrimEnd(_)
TrimEnd(s) ==
    IF s # <<>> /\ s[Len(s)] = " " THEN TrimEnd(SubSeq(s, 1, Len(s) - 1)) ELSE s

\* String.prototype.trim
Trim(s) == TrimEnd(TrimStart(s))

\* The global parseFloat on a string: leading white space is skipped, then
\* the longest prefix [+-] digits [. digits] is read; what follows is
\* ignored; NaN when that prefix holds no digit.  (Exponents and the
\* literal Infinity are further forms of the prefix; no sample string
\* holds one.)
parseFloat(s) ==
    LET t      == TrimStart(s)
        signed == t # <<>> /\ t[1] \in {"-", "+"}
        body   == IF signed THEN Tail(t) ELSE t
        ip     == DigitPrefix(body)
        rest   == SubSeq(body, Len(ip) + 1, Len(body))
        fp     == IF rest # <<>> /\ rest[1] = "." THEN DigitPrefix(Tail(rest)) ELSE <<>>
        mag    == DigitsToInt(ip \o fp)
    IN  IF ip = <<>> /\ fp = <<>> THEN NaN
        ELSE Dec(IF signed /\ t[1] = "-" THEN -mag ELSE mag, Len(fp))

\* isNaN
isNaN(x) == x.nan

\* x * k for an integer k
Times(x, k) == IF x.nan THEN NaN ELSE Dec(x.m * k, x.e)

\* x - y
Minus(x, y) ==
    IF x.nan \/ y.nan THEN NaN
    ELSE LET e == Max(x.e, y.e)
         IN  Dec(x.m * Pow10(e - x.e) - y.m * Pow10(e - y.e), e)

\* Number.prototype.toFixed(d): the integer n for which n / 10^d - |x| is
\* closest to zero, the larger n on a tie, printed with d decimals; the
\* sign is printed when x < 0, also when the digits are all zero.
toFixed(x, d) ==
    IF x.nan THEN <<"N", "a", "N">>
    ELSE LET a    == Abs(x.m)
             n    == IF x.e <= d THEN a * Pow10(d - x.e)
                     ELSE (2 * a + Pow10(x.e - d)) \div (2 * Pow10(x.e - d))
             ip   == IntToDigits(n \div Pow10(d))
             fp   == PadStart(IntToDigits(n % Pow10(d)), d)
             body == IF d = 0 THEN ip ELSE ip \o <<".">> \o fp
         IN  IF x.m < 0 THEN <<"-">> \o body ELSE body

----------------------------------------------------------------------------
(* String literals of the source *)

NA == <<"N", "/", "A">>

Dash == <<"-">>

Percent == <<"%">>

EUR == <<" ", "E", "U", "R">>

NoDataEUR == <<"-", " ", "E", "U", "R">>

active == <<"a", "c", "t", "i", "v", "e">>

nullWord == <<"n", "u", "l", "l">>

InvalidDate == <<"I", "n", "v", "a", "l", "i", "d", " ", "D", "a", "t", "e">>

----------------------------------------------------------------------------
(* formatPercentage, lines 36-46 *)

\* formatPercentage with the percentage cut to its whole part, not rounded.
formatPercentageTruncating(v) ==
    IF v = Null \/ v = Undefined THEN NA
    ELSE LET numValue == parseFloat(v.s)
         IN  IF isNaN(numValue) THEN Dash
             ELSE (IF numValue.m < 0 THEN <<"-">> ELSE <<>>)
                    \o IntToDigits((Abs(numValue.m) * 100) \div Pow10(numValue.e)) \o Percent

formatPercentage(v) ==
    IF v = Null \/ v = Undefined THEN NA
    ELSE LET numValue == parseFloat(v.s)
         IN  IF isNaN(numValue) THEN Dash
             ELSE toFixed(Times(numValue, 100), 0) \o Percent

(* parseSafeFloat, lines 55-68 *)

parseSafeFloat(v) ==
    IF v = Null \/ v = Undefined \/ v = Str(nullWord)
    THEN Dec(0, 0)
    ELSE IF Trim(v.s) = <<>> THEN Dec(0, 0)
    ELSE LET num == parseFloat(v.s)
         IN  IF isNaN(num) THEN Dec(0, 0) ELSE num

----------------------------------------------------------------------------
(* Property access *)

\* `o?.f`: undefined when o is null or undefined.
Opt(o, f) == IF IsNullish(o) THEN Undefined ELSE o[f]

\* `a[i]` for a zero-based index i of an array: undefined past its end.
At(a, i) == IF 0 <= i /\ i + 1 <= Len(a) THEN a[i + 1] ELSE Undefined

----------------------------------------------------------------------------
(* dayjs, as lines 114-116 use it.  A label "YYYY-MM" parses to the first  *)
(* day of that month (a month number outside 1..12 carries into the year,  *)
(* as the Date constructor does); any other sample label is not a date.    *)

dayjs(s) ==
    IF /\ Len(s) = 7
       /\ \A i \in {1, 2, 3, 4, 6, 7} : IsDigit(s[i])
       /\ s[5] = "-"
    THEN [valid |-> TRUE,
          months |-> 12 * DigitsToInt(SubSeq(s, 1, 4)) + DigitsToInt(SubSeq(s, 6, 7)) - 1]
    ELSE [valid |-> FALSE, months |-> 0]

\* .subtract(n, "month") of a first-of-month date
subtractMonths(d, n) == [d EXCEPT !.months = d.months - n]

\* .format("YYYY-MM")
formatYYYYMM(d) ==
    IF ~d.valid THEN InvalidDate
    ELSE PadStart(IntToDigits(d.months \div 12), 4) \o <<"-">>
            \o PadStart(IntToDigits((d.months % 12) + 1), 2)

----------------------------------------------------------------------------
(* calculateNetEarningsPrevMonth, lines 77-135 *)

\* earningsDataArray with the two arrays merged when both are present.
earningsDataArrayMerged(p) ==
    LET costsByMonthData == Opt(p, "costsByMonth")
        a == IF Truthy(Opt(costsByMonthData, "potentialEarningsByMonth"))
             THEN costsByMonthData.potentialEarningsByMonth.a ELSE <<>>
        b == IF Truthy(Opt(costsByMonthData, "costsByMonth"))
             THEN costsByMonthData.costsByMonth.a ELSE <<>>
    IN  b \o a

\* Lines 80-93: the array that holds the monthly earnings.
earningsDataArray(p) ==
    LET costsByMonthData == Opt(p, "costsByMonth")
    IN  IF Truthy(Opt(costsByMonthData, "potentialEarningsByMonth"))
        THEN costsByMonthData.potentialEarningsByMonth.a
        ELSE IF Truthy(Opt(costsByMonthData, "costsByMonth"))
        THEN costsByMonthData.costsByMonth.a
        ELSE <<>>

\* Lines 96-97.
monthlySalary(p) == parseSafeFloat(Opt(Opt(p, "statusAggregation"), "monthlySalary"))

\* Lines 109-111: the latest entry, or its month, is missing.
NoReferenceMonth(arr) ==
    arr = <<>> \/ ~Truthy(arr[Len(arr)]) \/ ~Truthy(arr[Len(arr)].month)

\* previousMonthOf with the month lowered and the year left alone.
previousMonthOfSameYear(month) ==
    LET d == dayjs(month.s)
    IN  IF ~d.valid THEN InvalidDate
        ELSE PadStart(IntToDigits(d.months \div 12), 4) \o <<"-">>
                \o PadStart(IntToDigits(IF d.months % 12 = 0 THEN 12 ELSE d.months % 12), 2)

\* Lines 114-116.
previousMonthOf(month) == formatYYYYMM(subtractMonths(dayjs(month.s), 1))

\* find by position: the entry just before the latest one.
findByPosition(arr, label) ==
    IF \E i \in 1..Len(arr) : IsNullish(arr[i]) THEN Thrown
    ELSE IF Len(arr) >= 2 THEN arr[Len(arr) - 1]
    ELSE Undefined

\* Lines 121-123: Array.prototype.find with the callback
\* entry => entry.month === label.  The entries are visited in order up to
\* the first match; reading .month of a null entry throws.
RECURSIVE find(_, _)
find(arr, label) ==
    IF arr = <<>> THEN Undefined
    ELSE IF IsNullish(arr[1]) THEN Thrown
    ELSE IF arr[1].month = Str(label) THEN arr[1]
    ELSE find(Tail(arr), label)

\* The value of the local previousMonthFormatted (line 116) when the call
\* ends: undefined when it returned before line 114.
previousMonthFormattedOf(p) ==
    LET arr == earningsDataArray(p)
    IN  IF NoReferenceMonth(arr) THEN Undefined
        ELSE Str(previousMonthOf(arr[Len(arr)].month))

calculateNetEarningsPrevMonth(p) ==
    LET arr == earningsDataArray(p)
    IN  IF arr = <<>> THEN Str(NoDataEUR)
        ELSE IF NoReferenceMonth(arr) THEN Str(NoDataEUR)
        ELSE LET prevMonthEntry == find(arr, previousMonthOf(arr[Len(arr)].month))
                 earningsPrevMonth ==
                     IF Truthy(prevMonthEntry) /\ Truthy(prevMonthEntry.costs)
                     THEN parseFloat(prevMonthEntry.costs.s)
                     ELSE Dec(0, 0)
                 netEarnings == Minus(earningsPrevMonth, monthlySalary(p))
             IN  IF prevMonthEntry = Thrown THEN Thrown
                 ELSE Str(toFixed(netEarnings, 2) \o EUR)

----------------------------------------------------------------------------
(* tableData, lines 141-200 *)

\* Line 144: the callback of the first filter.
hasPerson(dataRow) == Truthy(OrElse(dataRow.employees, dataRow.externals))

\* personDataOf with the externals taken first.
personDataOfExternalsFirst(dataRow) == OrElse(dataRow.externals, dataRow.employees)

\* Line 148.
personDataOf(dataRow) == OrElse(dataRow.employees, dataRow.externals)

\* isActive that reads the top-level status alone.
isActiveTopLevel(p) == Opt(p, "status") = Str(active)

\* Lines 151-153.
isActive(p) ==
    \/ Opt(Opt(p, "statusAggregation"), "status") = Str(active)
    \/ Opt(p, "status") = Str(active)

\* Lines 174-175.
lastThreeMonthsOf(p) ==
    OrElse(Opt(Opt(p, "workforceUtilisation"), "lastThreeMonthsIndividually"), Arr(<<>>)).a

\* juneValue that takes the oldest entry present, whatever its index.
juneValueOldest(lastThreeMonths) ==
    formatPercentage(Opt(At(lastThreeMonths, Len(lastThreeMonths) - 1), "utilisationRate"))

\* Line 177.
juneValue(lastThreeMonths) == formatPercentage(Opt(At(lastThreeMonths, 2), "utilisationRate"))

\* Line 178.
julyValue(lastThreeMonths) == formatPercentage(Opt(At(lastThreeMonths, 1), "utilisationRate"))

\* Line 179.
augustValue(lastThreeMonths) == formatPercentage(Opt(At(lastThreeMonths, 0), "utilisationRate"))

\* Lines 146-198: the callback of map.  Null for a person who is not
\* active, Thrown when calculateNetEarningsPrevMonth throws, else the row.
mapRow(dataRow) ==
    LET p   == personDataOf(dataRow)
        net == calculateNetEarningsPrevMonth(p)
    IN  IF ~isActive(p) THEN Null
        ELSE IF net = Thrown THEN Thrown
        ELSE [ person       |-> OrElse(Opt(p, "name"), Str(<<>>)).s,
               past12Months |-> formatPercentage(
                   Opt(Opt(p, "workforceUtilisation"), "utilisationRateLastTwelveMonths")),
               y2d          |-> formatPercentage(
                   Opt(Opt(p, "workforceUtilisation"), "utilisationRateYearToDate")),
               june         |-> juneValue(lastThreeMonthsOf(p)),
               july         |-> julyValue(lastThreeMonthsOf(p)),
               august       |-> augustValue(lastThreeMonthsOf(p)),
               netEarningsPrevMonth |-> net.s ]

\* Array.prototype.map with the callback mapRow.
mapRows(a) == [i \in 1..Len(a) |-> mapRow(a[i])]

\* Line 200: the callback of the second filter, `row != null`.
notNull(row) == ~IsNullish(row)

----------------------------------------------------------------------------
(* Inputs of formatPercentage *)

\* The longest generated string.
MaxStrLen == 4

\* Digits, the decimal point, a sign, a letter and a blank.
Alphabet == {"0", "5", "8", ".", "-", "a", " "}

StringsUpTo(n) == UNION {[1..k -> Alphabet] : k \in 0..n}

\* The rates quoted in the specification's examples.
ExampleRates ==
    { <<"0", ".", "8", "5", "5">>, <<"0", ".", "8", "5", "3", "4">>,
      <<"0", ".", "9">>, <<"0", ".", "8">>, <<"0", ".", "7">>, <<"a", "b", "c">> }

FmtValues == {Null, Undefined} \cup {Str(s) : s \in StringsUpTo(MaxStrLen) \cup ExampleRates}

InitFmt ==
    /\ pc = "formatPercentage"
    /\ value \in FmtValues
    /\ personData = Undefined
    /\ previousMonthFormatted = Undefined
    /\ ret = Undefined
    /\ sourceData = Undefined
    /\ rows = Undefined
    /\ tableData = Undefined

\* One call of formatPercentage(value).
CallFormatPercentage ==
    /\ pc = "formatPercentage"
    /\ ret' = Str(formatPercentage(value))
    /\ pc' = "formatPercentage:returned"
    /\ UNCHANGED <<value, personData, previousMonthFormatted, sourceData, rows, tableData>>

NextFmt == CallFormatPercentage

SpecFmt == InitFmt /\ [][NextFmt]_vars

----------------------------------------------------------------------------
(* Inputs of calculateNetEarningsPrevMonth *)

\* The longest monthly series.
MaxSeries == 2

TwoDigits ==
    << <<"0", "1">>, <<"0", "2">>, <<"0", "3">>, <<"0", "4">>, <<"0", "5">>, <<"0", "6">>,
       <<"0", "7">>, <<"0", "8">>, <<"0", "9">>, <<"1", "0">>, <<"1", "1">>, <<"1", "2">> >>

YearDigits(y) ==
    CASE y = 2023 -> <<"2", "0", "2", "3">>
      [] y = 2024 -> <<"2", "0", "2", "4">>
      [] y = 2025 -> <<"2", "0", "2", "5">>

Years == {2024, 2025}

\* The label "YYYY-MM" of month m of year y, written out.
Label(y, m) == YearDigits(y) \o <<"-">> \o TwoDigits[m]

Entry(month, costs) == [t |-> "object", month |-> month, costs |-> costs]

CostSamples ==
    { Undefined, Str(<<>>), Str(<<" ">>), Str(nullWord), Str(<<"a", "b", "c">>),
      Str(<<"1", "0", "0", "0">>), Str(<<"1", "2", "0", "0">>) }

SalarySamples ==
    { Undefined, Null, Str(nullWord), Str(<<"a", "b", "c">>), Str(<<"8", "0", "0">>),
      Str(<<"0", ".", "5">>) }

\* Entries around a turn of the year.  December is the month before the
\* latest one in most series, so its entries carry every cost sample.
Entries ==
    {Null}
      \cup {Entry(Str(Label(2023, 12)), c) : c \in CostSamples}
      \cup {Entry(Str(Label(2024, 1)), c) :
              c \in {Undefined, Str(<<"a", "b", "c">>), Str(<<"1", "2", "0", "0">>)}}
      \cup {Entry(Str(Label(2024, 2)), c) : c \in {Undefined, Str(<<"1", "0", "0", "0">>)}}
      \cup {Entry(m, Str(<<"1", "0", "0", "0">>)) :
              m \in {Undefined, Str(<<>>), Str(<<"a", "b", "c">>)}}

\* The example of the specification: May 1000, June 1200.
ExampleSeries ==
    << Entry(Str(Label(2024, 5)), Str(<<"1", "0", "0", "0">>)),
       Entry(Str(Label(2024, 6)), Str(<<"1", "2", "0", "0">>)) >>

\* One entry for every month of two years.
EveryMonth == {<<Entry(Str(Label(y, m)), Str(<<"1", "0", "0", "0">>))>> : y \in Years, m \in 1..12}

SeriesSamples ==
    UNION {[1..k -> Entries] : k \in 0..MaxSeries} \cup {ExampleSeries} \cup EveryMonth

\* What the other array holds when both are present.
OtherSeries ==
    { <<>>, <<Entry(Str(Label(2024, 1)), Str(<<"1", "2", "0", "0">>)),
              Entry(Str(Label(2024, 2)), Str(<<"1", "0", "0", "0">>))>> }

CostsByMonthSamples ==
    {Undefined}
      \cup {[t |-> "object", potentialEarningsByMonth |-> Arr(a), costsByMonth |-> Undefined] :
              a \in SeriesSamples}
      \cup {[t |-> "object", potentialEarningsByMonth |-> Undefined, costsByMonth |-> Arr(a)] :
              a \in SeriesSamples}
      \cup {[t |-> "object", potentialEarningsByMonth |-> Arr(a), costsByMonth |-> Arr(b)] :
              a \in SeriesSamples, b \in OtherSeries}
      \cup {[t |-> "object", potentialEarningsByMonth |-> Undefined, costsByMonth |-> Undefined]}

StatusAggregation(status, salary) ==
    [t |-> "object", status |-> status, monthlySalary |-> salary]

Person(name, status, statusAggregation, workforceUtilisation, costsByMonth) ==
    [t |-> "object", name |-> name, status |-> status,
     statusAggregation |-> statusAggregation,
     workforceUtilisation |-> workforceUtilisation, costsByMonth |-> costsByMonth]

NetPersons ==
    { Person(Str(<<"A">>), Str(active), sa, Undefined, c) :
        sa \in {Undefined} \cup {StatusAggregation(Undefined, x) : x \in SalarySamples \ {Undefined}},
        c \in CostsByMonthSamples }

InitNet ==
    /\ pc = "calculateNetEarningsPrevMonth"
    /\ personData \in NetPersons
    /\ value = Undefined
    /\ previousMonthFormatted = Undefined
    /\ ret = Undefined
    /\ sourceData = Undefined
    /\ rows = Undefined
    /\ tableData = Undefined

\* One call of calculateNetEarningsPrevMonth(personData): it returns at
\* line 101 or 110, throws inside find, or returns at line 134.
CallCalculateNetEarningsPrevMonth ==
    /\ pc = "calculateNetEarningsPrevMonth"
    /\ ret' = calculateNetEarningsPrevMonth(personData)
    /\ previousMonthFormatted' = previousMonthFormattedOf(personData)
    /\ pc' = "calculateNetEarningsPrevMonth:returned"
    /\ UNCHANGED <<value, personData, sourceData, rows, tableData>>

NextNet == CallCalculateNetEarningsPrevMonth

SpecNet == InitNet /\ [][NextNet]_vars

----------------------------------------------------------------------------
(* Inputs of tableData *)

\* The longest source document.
MaxRecords == 2

Rate(r) == [t |-> "object", utilisationRate |-> r]

R09 == Str(<<"0", ".", "9">>)

R08 == Str(<<"0", ".", "8">>)

R07 == Str(<<"0", ".", "7">>)

Utilisation(twelve, ytd, lastThree) ==
    [t |-> "object", utilisationRateLastTwelveMonths |-> twelve,
     utilisationRateYearToDate |-> ytd, lastThreeMonthsIndividually |-> lastThree]

Earnings(a) == [t |-> "object", potentialEarningsByMonth |-> Arr(a), costsByMonth |-> Undefined]

Costs(a) == [t |-> "object", potentialEarningsByMonth |-> Undefined, costsByMonth |-> Arr(a)]

S800 == Str(<<"8", "0", "0">>)

inactive == <<"i", "n", "a", "c", "t", "i", "v", "e">>

FullUtilisation ==
    Utilisation(Str(<<"0", ".", "8", "5", "5">>), Str(<<"0", ".", "8", "5", "3", "4">>),
                Arr(<<Rate(R09), Rate(R08), Rate(R07)>>))

\* Employees that differ in how their status is recorded.
ByStatus ==
    { Person(Str(<<"A">>), st, sa, FullUtilisation, Earnings(ExampleSeries)) :
        st \in {Undefined, Str(active), Str(inactive)},
        sa \in {Undefined, StatusAggregation(Str(active), S800),
                StatusAggregation(Str(inactive), S800), StatusAggregation(Undefined, S800)} }

\* Active employees that differ in their last three months.
LastThreeSamples ==
    { Undefined, Null, Arr(<<>>), Arr(<<Rate(R09)>>), Arr(<<Rate(R09), Rate(R08)>>),
      Arr(<<Null, Rate(R08), Rate(R07)>>), Arr(<<Rate(R09), Rate(Undefined), Rate(R07)>>),
      Arr(<<Rate(Str(<<"a", "b", "c">>)), Rate(Null)>>) }

ByLastThree ==
    { Person(Str(<<"B">>), Str(active), Undefined, Utilisation(R09, Undefined, l), Undefined) :
        l \in LastThreeSamples }
      \cup {Person(Undefined, Str(active), Undefined, Undefined, Undefined)}

\* Employees whose series has a null entry before the latest one.
NullEntrySeries == <<Null, Entry(Str(Label(2024, 2)), Str(<<"1", "0", "0", "0">>))>>

ByNullEntry ==
    { Person(Str(<<"C">>), st, Undefined, FullUtilisation, Earnings(NullEntrySeries)) :
        st \in {Str(active), Str(inactive)} }

ExternalSamples ==
    { Person(Str(<<"X">>), Undefined, StatusAggregation(Str(active), S800), FullUtilisation,
             Costs(ExampleSeries)),
      Person(Str(<<"Y">>), Str(inactive), Undefined, Undefined, Undefined) }

EmployeeSamples == ByStatus \cup ByLastThree \cup ByNullEntry

SourceRecord(employees, externals) ==
    [t |-> "object", employees |-> employees, externals |-> externals]

SourceRecords ==
    {SourceRecord(Undefined, Undefined), SourceRecord(Null, Null)}
      \cup {SourceRecord(e, Undefined) : e \in EmployeeSamples}
      \cup {SourceRecord(Undefined, x) : x \in ExternalSamples}
      \cup {SourceRecord(e, x) :
              e \in { Person(Str(<<"A">>), Str(inactive), Undefined, FullUtilisation,
                             Earnings(ExampleSeries)),
                      Person(Str(<<"A">>), Str(active), Undefined, FullUtilisation,
                             Earnings(ExampleSeries)) },
              x \in ExternalSamples}

InitTable ==
    /\ pc = "tableData"
    /\ sourceData \in UNION {[1..k -> SourceRecords] : k \in 0..MaxRecords}
    /\ value = Undefined
    /\ personData = Undefined
    /\ previousMonthFormatted = Undefined
    /\ ret = Undefined
    /\ rows = Undefined
    /\ tableData = Undefined

\* Lines 142-145: the first filter (Array.prototype.filter is SelectSeq).
FilterPopulated ==
    /\ pc = "tableData"
    /\ rows' = SelectSeq(sourceData, hasPerson)
    /\ pc' = "tableData:map"
    /\ UNCHANGED <<value, personData, previousMonthFormatted, ret, sourceData, tableData>>

\* Lines 146-198: map.  A callback that throws ends the module's
\* initialisation: tableData is never assigned.
MapRows ==
    /\ pc = "tableData:map"
    /\ IF \E i \in 1..Len(rows) : mapRow(rows[i]) = Thrown
       THEN /\ rows' = Undefined
            /\ pc' = "tableData:threw"
       ELSE /\ rows' = mapRows(rows)
            /\ pc' = "tableData:filter"
    /\ UNCHANGED <<value, personData, previousMonthFormatted, ret, sourceData, tableData>>

\* Line 200: the second filter, and the assignment of line 141.
RemoveNulls ==
    /\ pc = "tableData:filter"
    /\ rows' = SelectSeq(rows, notNull)
    /\ tableData' = SelectSeq(rows, notNull)
    /\ pc' = "tableData:done"
    /\ UNCHANGED <<value, personData, previousMonthFormatted, ret, sourceData>>

NextTable == FilterPopulated \/ MapRows \/ RemoveNulls

SpecTable == InitTable /\ [][NextTable]_vars

----------------------------------------------------------------------------
(* The three computations together *)

Init == InitFmt \/ InitNet \/ InitTable

Next == NextFmt \/ NextNet \/ NextTable

Spec == Init /\ [][Next]_vars

----------------------------------------------------------------------------
(* What the claims are stated with *)

FmtReturned == pc = "formatPercentage:returned"

NetReturned == pc = "calculateNetEarningsPrevMonth:returned"

Done == pc = "tableData:done"

\* A string that starts, after blanks and an optional sign, with a digit or
\* with a point and a digit.
Parseable(s) ==
    LET t == TrimStart(s)
        u == IF t # <<>> /\ t[1] \in {"+", "-"} THEN Tail(t) ELSE t
    IN  /\ u # <<>>
        /\ \/ IsDigit(u[1])
           \/ u[1] = "." /\ Len(u) >= 2 /\ IsDigit(u[2])

\* s is [-]digits% and the digits are 100 * x rounded to the nearest whole
\* number, a half rounded away from zero.
IsRoundedPercent(s, x) ==
    LET body == SubSeq(s, 1, Len(s) - 1)
        neg  == body # <<>> /\ body[1] = "-"
        ds   == IF neg THEN Tail(body) ELSE body
        n    == DigitsToInt(ds)
        d    == 2 * n * Pow10(x.e) - 200 * Abs(x.m)
    IN  /\ Len(s) >= 2 /\ s[Len(s)] = "%"
        /\ ds # <<>> /\ \A i \in 1..Len(ds) : IsDigit(ds[i])
        /\ neg <=> x.m < 0
        /\ -Pow10(x.e) < d /\ d <= Pow10(x.e)

\* The series calculateNetEarningsPrevMonth is to use, read off the person.
SelectedSeries ==
    LET c == personData.costsByMonth
    IN  IF c = Undefined THEN <<>>
        ELSE IF c.potentialEarningsByMonth # Undefined THEN c.potentialEarningsByMonth.a
        ELSE IF c.costsByMonth # Undefined THEN c.costsByMonth.a
        ELSE <<>>

SalaryOf ==
    IF personData.statusAggregation = Undefined THEN Undefined
    ELSE personData.statusAggregation.monthlySalary

HasMonth(e) == e # Null /\ e.month \notin {Undefined, Null, Str(<<>>)}

LastHasMonth == SelectedSeries # <<>> /\ HasMonth(SelectedSeries[Len(SelectedSeries)])

\* The safe parse of the sample strings, in cents: every sample that is
\* absent, "null", blank or not a number is worth 0.
Cents(v) ==
    CASE v = Str(<<"8", "0", "0">>) -> 80000
      [] v = Str(<<"0", ".", "5">>) -> 50
      [] v = Str(<<"1", "0", "0", "0">>) -> 100000
      [] v = Str(<<"1", "2", "0", "0">>) -> 120000
      [] OTHER -> 0

\* An amount of cents with two decimals and " EUR".
FormatCents(c) ==
    (IF c < 0 THEN <<"-">> ELSE <<>>)
        \o IntToDigits(Abs(c) \div 100) \o <<".">>
        \o PadStart(IntToDigits(Abs(c) % 100), 2) \o <<" ", "E", "U", "R">>

\* [-]digits.dd EUR
IsAmount(s) ==
    LET body == SubSeq(s, 1, Len(s) - 4)
        ds   == IF body # <<>> /\ body[1] = "-" THEN Tail(body) ELSE body
        k    == Len(ds)
    IN  /\ Len(s) >= 8
        /\ SubSeq(s, Len(s) - 3, Len(s)) = <<" ", "E", "U", "R">>
        /\ k >= 4 /\ ds[k - 2] = "."
        /\ \A i \in (1..k) \ {k - 2} : IsDigit(ds[i])

----------------------------------------------------------------------------
(* formatPercentage *)

----------------------------------------------------------------------------
(* calculateNetEarningsPrevMonth *)

\* C1: when the selected series is not empty, its last entry has a month
\* and the entry labelled with the previous month has a costs field, the
\* result is the safe parse of those costs minus the safe parse of the
\* monthly salary, with two decimals and " EUR"; the safe parse maps null,
\* undefined, "null", blank and unparseable strings to 0, for the costs as
\* for the salary.
C1_NetIsSafeCostsMinusSafeSalary ==
    (NetReturned /\ ret # Thrown /\ LastHasMonth) =>
        \A i \in 1..Len(SelectedSeries) :
            ( /\ \A j \in 1..i : SelectedSeries[j] # Null
              /\ \A j \in 1..(i - 1) : SelectedSeries[j].month # previousMonthFormatted
              /\ SelectedSeries[i].month = previousMonthFormatted
              /\ ~IsNullish(SelectedSeries[i].costs) )
            => ret.s = FormatCents(Cents(SelectedSeries[i].costs) - Cents(SalaryOf))

\* C4: the previous month's figure is found by its label, never by its
\* position: when the series is not empty, every entry is an object, the
\* last entry has a month and no entry carries the previous month's label,
\* the result is 0 minus the safe parse of the salary, with two decimals and
\* " EUR", whatever the neighbouring entries hold.
C4_GapCountsAsZero ==
    ( /\ NetReturned
      /\ LastHasMonth
      /\ \A i \in 1..Len(SelectedSeries) :
            SelectedSeries[i] # Null /\ SelectedSeries[i].month # previousMonthFormatted )
    => ret = Str(FormatCents(0 - Cents(SalaryOf)))

\* December 1200, February 1000, salary 800: January is missing.
C4_Witness ==
    /\ NetReturned
    /\ SelectedSeries = << Entry(Str(Label(2023, 12)), Str(<<"1", "2", "0", "0">>)),
                           Entry(Str(Label(2024, 2)), Str(<<"1", "0", "0", "0">>)) >>
    /\ SalaryOf = Str(<<"8", "0", "0">>)
    /\ ret = Str(<<"-", "8", "0", "0", ".", "0", "0", " ", "E", "U", "R">>)

\* C5: the result is "- EUR" if and only if the selected series is empty
\* or its last entry has no month, whatever the salary; in every other case
\* it is a number with two decimals followed by " EUR".
C5_SentinelOrAmount ==
    (NetReturned /\ ret # Thrown) =>
        /\ ret = Str(NoDataEUR) <=> ~LastHasMonth
        /\ ret # Str(NoDataEUR) => IsAmount(ret.s)

\* C6: for a reference month "YYYY-MM" with MM in 01..12 the previous
\* month's label is "YYYY-(MM-1)", zero-padded, when MM > 01 and
\* "(YYYY-1)-12" when MM = 01.
C6_PreviousMonthLabel ==
    NetReturned =>
        \A y \in {2023} \cup Years : \A m \in 1..12 :
            ( /\ y = 2023 => m > 1
              /\ LastHasMonth
              /\ SelectedSeries[Len(SelectedSeries)].month = Str(Label(y, m)) )
            => previousMonthFormatted =
                   Str(IF m > 1 THEN Label(y, m - 1) ELSE Label(y - 1, 12))

\* January 2024 is the latest month: the previous one is December 2023.
C6_Witness ==
    /\ NetReturned
    /\ LastHasMonth
    /\ SelectedSeries[Len(SelectedSeries)].month = Str(<<"2", "0", "2", "4", "-", "0", "1">>)
    /\ previousMonthFormatted = Str(<<"2", "0", "2", "3", "-", "1", "2">>)

\* C9: exactly one series is used: potentialEarningsByMonth when it is
\* present, whatever costsByMonth holds; costsByMonth when
\* potentialEarningsByMonth is absent; the empty series when both are.
C9_OneSeriesIsUsed ==
    NetReturned =>
        LET c == personData.costsByMonth
        IN  c # Undefined =>
              /\ c.potentialEarningsByMonth # Undefined =>
                   LET q == [personData EXCEPT !.costsByMonth.costsByMonth = Undefined]
                   IN  /\ ret = calculateNetEarningsPrevMonth(q)
                       /\ previousMonthFormatted = previousMonthFormattedOf(q)
              /\ (c.potentialEarningsByMonth = Undefined /\ c.costsByMonth # Undefined) =>
                   LET q == [personData EXCEPT
                               !.costsByMonth.potentialEarningsByMonth = c.costsByMonth,
                               !.costsByMonth.costsByMonth = Undefined]
                   IN  /\ ret = calculateNetEarningsPrevMonth(q)
                       /\ previousMonthFormatted = previousMonthFormattedOf(q)
              /\ (c.potentialEarningsByMonth = Undefined /\ c.costsByMonth = Undefined) =>
                   ret = Str(NoDataEUR)

\* Both arrays are present and differ; the result is that of the earnings.
C9_Witness ==
    /\ NetReturned
    /\ personData.costsByMonth # Undefined
    /\ personData.costsByMonth.potentialEarningsByMonth = Arr(ExampleSeries)
    /\ personData.costsByMonth.costsByMonth =
           Arr(<< Entry(Str(Label(2024, 1)), Str(<<"1", "2", "0", "0">>)),
                  Entry(Str(Label(2024, 2)), Str(<<"1", "0", "0", "0">>)) >>)
    /\ SalaryOf = Str(<<"8", "0", "0">>)
    /\ ret = Str(<<"2", "0", "0", ".", "0", "0", " ", "E", "U", "R">>)

----------------------------------------------------------------------------
(* tableData *)

Populated(v) == v # Undefined /\ v # Null

\* The sub-record a source record is read through: employees when it is
\* populated, else externals.
ChosenPerson(r) == IF Populated(r.employees) THEN r.employees ELSE r.externals

\* statusAggregation.status or the top-level status is "active".
StatusActive(p) ==
    \/ p.statusAggregation # Undefined /\ p.statusAggregation.status = Str(active)
    \/ p.status = Str(active)

ActivePopulated(r) ==
    /\ Populated(r.employees) \/ Populated(r.externals)
    /\ StatusActive(ChosenPerson(r))

\* The active, populated records in the order of the document.
Selected == SelectSeq(sourceData, ActivePopulated)

\* C2: the rows correspond one to one, in the same order, to the records
\* that have a populated employees or externals sub-record whose
\* statusAggregation.status or top-level status is "active"; the number of
\* rows is the number of those records and never more than the number of
\* records; inactive and unpopulated records yield no row.
C2_RowsAreTheActivePopulatedRecords ==
    Done =>
        /\ Len(tableData) = Len(Selected)
        /\ Len(tableData) <= Len(sourceData)
        /\ \A k \in 1..Len(tableData) :
              /\ tableData[k] = mapRow(Selected[k])
              /\ tableData[k].person = OrElse(ChosenPerson(Selected[k]).name, Str(<<>>)).s

\* An inactive external, then an employee who is active by
\* statusAggregation alone: one row, the employee's.
C2_Witness ==
    /\ Done
    /\ Len(sourceData) = 2
    /\ ~ActivePopulated(sourceData[1]) /\ Populated(sourceData[1].externals)
    /\ sourceData[2].employees # Undefined /\ sourceData[2].employees # Null
    /\ sourceData[2].employees.status = Undefined
    /\ Len(tableData) = 1
    /\ tableData[1].person = <<"A">>

IsPercentText(s) == s \in {NA, Dash} \/ (s # <<>> /\ s[Len(s)] = "%")

IsEurText(s) == Len(s) >= 4 /\ SubSeq(s, Len(s) - 3, Len(s)) = <<" ", "E", "U", "R">>

\* C3: building the rows never raises an exception, whatever nested object,
\* field or entry of a series or of lastThreeMonthsIndividually is absent
\* or null, and every field of every row is a formatted value or one of the
\* placeholders.
C3_NeverThrows ==
    /\ pc # "tableData:threw"
    /\ Done =>
         \A k \in 1..Len(tableData) :
            /\ \A f \in {"past12Months", "y2d", "june", "july", "august"} :
                  IsPercentText(tableData[k][f])
            /\ IsEurText(tableData[k].netEarningsPrevMonth)

\* The reading of the sample rates as percentages.
RateText(r) ==
    CASE r = R09 -> <<"9", "0", "%">>
      [] r = R08 -> <<"8", "0", "%">>
      [] r = R07 -> <<"7", "0", "%">>
      [] r = Str(<<"a", "b", "c">>) -> <<"-">>
      [] OTHER -> <<"N", "/", "A">>

\* The person's lastThreeMonthsIndividually, empty when it is absent.
LastThreeOf(p) ==
    IF p.workforceUtilisation = Undefined THEN <<>>
    ELSE IF p.workforceUtilisation.lastThreeMonthsIndividually \in {Undefined, Null} THEN <<>>
    ELSE p.workforceUtilisation.lastThreeMonthsIndividually.a

\* The text of the entry at zero-based index i: "N/A" when the list has no
\* such entry.
SlotText(l, i) ==
    IF i + 1 > Len(l) THEN <<"N", "/", "A">>
    ELSE IF l[i + 1] = Null THEN <<"N", "/", "A">>
    ELSE RateText(l[i + 1].utilisationRate)

\* C8: august, july and june of a row are the percentages of the entries
\* at index 0, 1 and 2 of the person's lastThreeMonthsIndividually; a field
\* whose index is missing is "N/A" and the other fields are unaffected.
C8_LastThreeMonthsByIndex ==
    Done =>
        \A k \in 1..Len(tableData) :
            LET l == LastThreeOf(ChosenPerson(Selected[k]))
            IN  /\ tableData[k].august = SlotText(l, 0)
                /\ tableData[k].july = SlotText(l, 1)
                /\ tableData[k].june = SlotText(l, 2)

\* A list of two entries: august and july are filled, june is "N/A".
C8_Witness ==
    /\ Done
    /\ \E k \in 1..Len(tableData) :
          /\ Len(LastThreeOf(ChosenPerson(Selected[k]))) = 2
          /\ tableData[k].august = <<"9", "0", "%">>
          /\ tableData[k].july = <<"8", "0", "%">>
          /\ tableData[k].june = <<"N", "/", "A">>

\* The document with the externals dropped from every record whose
\* employees sub-record is populated.
EmployeesOnly(src) ==
    [i \in 1..Len(src) |->
        IF Populated(src[i].employees) THEN [src[i] EXCEPT !.externals = Undefined] ELSE src[i]]

\* C10: when employees and externals are both populated only employees is
\* read: the rows are those of the document without these externals, a
\* record whose employees is inactive yields no row even if its externals
\* is active, and no record yields more than one row.
C10_EmployeesTakePrecedence ==
    Done =>
        /\ tableData = SelectSeq(mapRows(SelectSeq(EmployeesOnly(sourceData), hasPerson)), notNull)
        /\ Len(tableData) <= Len(sourceData)
        /\ Len(tableData) =
              Cardinality({i \in 1..Len(sourceData) :
                  \/ Populated(sourceData[i].employees) /\ StatusActive(sourceData[i].employees)
                  \/ /\ ~Populated(sourceData[i].employees)
                     /\ Populated(sourceData[i].externals)
                     /\ StatusActive(sourceData[i].externals)})

\* One record, employees inactive and externals active: no row.
C10_Witness ==
    /\ Done
    /\ Len(sourceData) = 1
    /\ Populated(sourceData[1].employees) /\ ~StatusActive(sourceData[1].employees)
    /\ Populated(sourceData[1].externals) /\ StatusActive(sourceData[1].externals)
    /\ tableData = <<>>

=============================================================================
